---- MODULE Spec2Model ----
(***************************************************************************)
(* Model of demo.py: the vignette transform (a radial falloff multiplied   *)
(* into every channel of an image, then converted to 8 bit) and the main   *)
(* loop that applies it to every *.png of a directory.                     *)
(*                                                                         *)
(* Numbers.  A float is a pair <<num, den>> (den > 0) standing for num/den.*)
(* Coordinates, squared distances and image samples are exact rationals;   *)
(* np.exp is evaluated in fixed point with FxBits fractional bits.         *)
(* An ndarray is a record [shape, data], data a function of index tuples   *)
(* (0-based, one component per axis).                                      *)
(***************************************************************************)
EXTENDS Integers, Sequences, FiniteSets, TLC

(* ---- bounds of the model ---- *)
MaxDim == 4
MaxChan == 3
FxBits == 13
ExpTerms == 10

(* ---- program constants ---- *)
UByteMax == 255

FxOne == 2 ^ FxBits

Max(a, b) == IF a >= b THEN a ELSE b

(* ------------------------------------------------------------------ *)
(* floats                                                               *)
(* ------------------------------------------------------------------ *)
FSub(a, b) == <<a[1] * b[2] - b[1] * a[2], a[2] * b[2]>>
FAdd(a, b) == <<a[1] * b[2] + b[1] * a[2], a[2] * b[2]>>
FMul(a, b) == <<a[1] * b[1], a[2] * b[2]>>
FDiv(a, b) == <<a[1] * b[2], a[2] * b[1]>>

\* n / d rounded to the nearest integer, n >= 0, d > 0
RoundDiv(n, d) == (2 * n + d) \div (2 * d)

\* Horner evaluation of the exponential series, in fixed point:
\* exp(-x) = 1 - x/1 * (1 - x/2 * (1 - x/3 * ( ... )))
RECURSIVE ExpSeries(_, _, _)
ExpSeries(x, n, acc) ==
    IF n = 0 THEN acc
    ELSE ExpSeries(x, n - 1, FxOne - RoundDiv(x * acc, FxOne * n))

\* np.exp(-a) for a float a >= 0
FExpNeg(a) == <<ExpSeries(RoundDiv(a[1] * FxOne, a[2]), ExpTerms, FxOne), FxOne>>

(* ------------------------------------------------------------------ *)
(* ndarrays and broadcasting                                            *)
(* ------------------------------------------------------------------ *)
RECURSIVE Indices(_)
Indices(shape) ==
    IF Len(shape) = 0 THEN {<<>>}
    ELSE {Append(t, k) : t \in Indices(SubSeq(shape, 1, Len(shape) - 1)),
                         k \in 0 .. (shape[Len(shape)] - 1)}

\* a shape aligned to the right of a rank n shape, missing axes of length 1
PadShape(s, n) ==
    [k \in 1 .. n |-> IF k <= n - Len(s) THEN 1 ELSE s[k - (n - Len(s))]]

\* fault: axes taken as compatible only when equal, no axis of length 1 stretched
BroadcastOkEqualOnly(s1, s2) ==
    LET n == Max(Len(s1), Len(s2))
    IN PadShape(s1, n) = PadShape(s2, n)

\* numpy's rule: axes are compatible when equal or when one of them is 1
BroadcastOk(s1, s2) ==
    LET n == Max(Len(s1), Len(s2))
        p1 == PadShape(s1, n)
        p2 == PadShape(s2, n)
    IN \A k \in 1 .. n : p1[k] = p2[k] \/ p1[k] = 1 \/ p2[k] = 1

\* fault: the result takes the second operand's shape
BroadcastShapeOfSecond(s1, s2) == PadShape(s2, Max(Len(s1), Len(s2)))

BroadcastShape(s1, s2) ==
    LET n == Max(Len(s1), Len(s2))
        p1 == PadShape(s1, n)
        p2 == PadShape(s2, n)
    IN [k \in 1 .. n |-> IF p1[k] = 1 THEN p2[k] ELSE p1[k]]

\* the index of operand s that index idx of the broadcast result reads
Project(idx, s) ==
    LET off == Len(idx) - Len(s)
    IN [k \in 1 .. Len(s) |-> IF s[k] = 1 THEN 0 ELSE idx[k + off]]

\* A + B and A * B, element by element over the broadcast shape
BroadcastAdd(A, B) ==
    LET s == BroadcastShape(A.shape, B.shape)
    IN [shape |-> s,
        data |-> [idx \in Indices(s) |->
                    FAdd(A.data[Project(idx, A.shape)], B.data[Project(idx, B.shape)])]]

\* fault: the factor reaches the first channel only, the others are copied
BroadcastMulFirstChannel(A, B) ==
    LET s == BroadcastShape(A.shape, B.shape)
    IN [shape |-> s,
        data |-> [idx \in Indices(s) |->
                    IF idx[Len(idx)] = 0
                    THEN FMul(A.data[Project(idx, A.shape)], B.data[Project(idx, B.shape)])
                    ELSE FMul(A.data[Project(idx, A.shape)], <<1, 1>>)]]

BroadcastMul(A, B) ==
    LET s == BroadcastShape(A.shape, B.shape)
    IN [shape |-> s,
        data |-> [idx \in Indices(s) |->
                    FMul(A.data[Project(idx, A.shape)], B.data[Project(idx, B.shape)])]]

\* A - x for a scalar x, and A ** 2
SubScalar(A, x) ==
    [shape |-> A.shape, data |-> [idx \in DOMAIN A.data |-> FSub(A.data[idx], x)]]

Squared(A) ==
    [shape |-> A.shape, data |-> [idx \in DOMAIN A.data |-> FMul(A.data[idx], A.data[idx])]]

\* A[..., np.newaxis]
NewAxis(A) ==
    LET s == Append(A.shape, 1)
    IN [shape |-> s,
        data |-> [idx \in Indices(s) |-> A.data[SubSeq(idx, 1, Len(A.shape))]]]

\* np.arange(n)
Arange(n) == [shape |-> <<n>>, data |-> [idx \in Indices(<<n>>) |-> <<idx[1], 1>>]]

(* ------------------------------------------------------------------ *)
(* skimage conversions                                                  *)
(* ------------------------------------------------------------------ *)
\* an array with no element, the placeholder of a value that was never computed
NoArray == [shape |-> <<0>>, data |-> [idx \in {} |-> 0]]

\* img_as_float of a uint8 image: v -> v / 255
ImgAsFloat(A) ==
    [shape |-> A.shape, data |-> [idx \in DOMAIN A.data |-> <<A.data[idx], UByteMax>>]]

\* fault: rounding up instead of to the nearest
RintUp(n, d) == (n + d - 1) \div d

\* np.rint: n / d rounded to the nearest integer, halves to the even one (n >= 0)
Rint(n, d) ==
    LET q == n \div d
        r == n % d
    IN IF 2 * r > d THEN q + 1
       ELSE IF 2 * r = d THEN q + (q % 2)
       ELSE q

Clip(v, lo, hi) == IF v < lo THEN lo ELSE IF v > hi THEN hi ELSE v

\* one sample of img_as_ubyte: x * 255, rounded, clipped to 0..255
UbyteSample(x) == Clip(Rint(x[1] * UByteMax, x[2]), 0, UByteMax)

\* img_as_ubyte of a float image.  Its range check takes np.min and np.max of the
\* image, which raise ValueError on an array without elements, and it raises
\* ValueError itself for a sample outside [-1, 1].
ImgAsUbyte(A) ==
    IF DOMAIN A.data = {} THEN [err |-> "ValueError", out |-> NoArray]
    ELSE IF \E idx \in DOMAIN A.data : A.data[idx][1] > A.data[idx][2]
         THEN [err |-> "ValueError", out |-> NoArray]
    ELSE [err |-> "none",
          out |-> [shape |-> A.shape,
                   data |-> [idx \in DOMAIN A.data |-> UbyteSample(A.data[idx])]]]

(* ------------------------------------------------------------------ *)
(* vignette                                                             *)
(* ------------------------------------------------------------------ *)
\* n / 2.0
Half(n) == <<n, 2>>

\* fault: distances taken from the middle of the index range, (n - 1) / 2.0
DistanceSquaredFromMiddle(width, height) ==
    LET xs == Arange(width)
        ys == Arange(height)
    IN BroadcastAdd(Squared(NewAxis(SubScalar(xs, <<width - 1, 2>>))),
                    Squared(SubScalar(ys, <<height - 1, 2>>)))

\* fault: width and height exchanged
DistanceSquaredSwapped(width, height) ==
    LET xs == Arange(width)
        ys == Arange(height)
    IN BroadcastAdd(Squared(NewAxis(SubScalar(xs, Half(height)))),
                    Squared(SubScalar(ys, Half(width))))

\* distance_squared: the (width, 1) column of squared row offsets plus the
\* (height,) row of squared column offsets, broadcast to (width, height)
DistanceSquared(width, height) ==
    LET xs == Arange(width)
        ys == Arange(height)
    IN BroadcastAdd(Squared(NewAxis(SubScalar(xs, Half(width)))),
                    Squared(SubScalar(ys, Half(height))))

\* fault: the second term not squared
SigmaSquaredUnsquared(width, height) ==
    FAdd(FMul(Half(width), Half(width)), Half(height))

SigmaSquared(width, height) ==
    FAdd(FMul(Half(width), Half(width)), FMul(Half(height), Half(height)))

\* falloff = np.exp(-distance_squared / sigma_squared)
Falloff(width, height) ==
    LET d == DistanceSquared(width, height)
        s == SigmaSquared(width, height)
    IN [shape |-> d.shape,
        data |-> [idx \in DOMAIN d.data |-> FExpNeg(FDiv(d.data[idx], s))]]

\* vignette(image): the error raised, if any, and the line raising it; the locals
\* falloff and result; and the value returned
Vignette(image) ==
    IF Len(image.shape) < 2
    THEN [err |-> "ValueError", at |-> 42, falloff |-> NoArray,
          result |-> NoArray, out |-> NoArray]
    ELSE LET width == image.shape[1]
             height == image.shape[2]
             falloff == Falloff(width, height)
             column == NewAxis(falloff)
         IN IF ~BroadcastOk(image.shape, column.shape)
            THEN [err |-> "ValueError", at |-> 68, falloff |-> falloff,
                  result |-> NoArray, out |-> NoArray]
            ELSE LET result == BroadcastMul(image, column)
                     conv == ImgAsUbyte(result)
                 IN [err |-> conv.err, at |-> IF conv.err = "none" THEN 0 ELSE 72,
                     falloff |-> falloff, result |-> result, out |-> conv.out]

(* ------------------------------------------------------------------ *)
(* file names                                                           *)
(* ------------------------------------------------------------------ *)
PadWidth == 3

\* the decimal digits of n >= 0
RECURSIVE Digits(_)
Digits(n) == IF n < 10 THEN <<n>> ELSE Append(Digits(n \div 10), n % 10)

\* "{:03d}".format(i): the digits of i, zeros in front up to PadWidth characters
RECURSIVE ZeroPad(_)
ZeroPad(d) == IF Len(d) >= PadWidth THEN d ELSE ZeroPad(<<0>> \o d)

\* output_filename_template.format(i); the name is given by its digit field,
\* the text around it ("output ", ".png") being the same for every i
OutputName(i) == ZeroPad(Digits(i))

\* a < b in the order of Python strings; an input file name is the sequence of
\* the digits in front of its ".png" ("." sorts before every digit, so a name
\* that is a prefix of another sorts first, with the suffix as without)
RECURSIVE LexLess(_, _)
LexLess(a, b) ==
    IF Len(b) = 0 THEN FALSE
    ELSE IF Len(a) = 0 THEN TRUE
    ELSE IF a[1] # b[1] THEN a[1] < b[1]
    ELSE LexLess(Tail(a), Tail(b))

RECURSIVE Insert(_, _)
Insert(x, sorted) ==
    IF Len(sorted) = 0 THEN <<x>>
    ELSE IF LexLess(x, sorted[1]) THEN <<x>> \o sorted
    ELSE <<sorted[1]>> \o Insert(x, Tail(sorted))

\* sorted(names)
RECURSIVE Sorted(_)
Sorted(names) == IF Len(names) = 0 THEN <<>> ELSE Insert(names[1], Sorted(Tail(names)))

\* the orders in which glob may list a set of names
Listings(S) ==
    {q \in [1 .. Cardinality(S) -> S] : \A a, b \in DOMAIN q : a # b => q[a] # q[b]}

(* ------------------------------------------------------------------ *)
(* inputs                                                               *)
(* ------------------------------------------------------------------ *)
\* position of idx in the row-major order of shape
RECURSIVE Linear(_, _)
Linear(idx, shape) ==
    IF Len(shape) = 0 THEN 0
    ELSE Linear(SubSeq(idx, 1, Len(idx) - 1), SubSeq(shape, 1, Len(shape) - 1))
             * shape[Len(shape)] + idx[Len(idx)]

\* a uint8 image of a given shape: uniform ("const", v), a ramp, or black with
\* one white pixel at row a, column b
PixelAt(pat, idx, shape) ==
    IF pat.kind = "const" THEN pat.a
    ELSE IF pat.kind = "ramp" THEN (200 + 37 * Linear(idx, shape)) % (UByteMax + 1)
    ELSE IF Len(idx) >= 2 /\ idx[1] = pat.a /\ idx[2] = pat.b THEN UByteMax
    ELSE 0

MakeImage(shape, pat) ==
    [shape |-> shape, data |-> [idx \in Indices(shape) |-> PixelAt(pat, idx, shape)]]

Uniform == {[kind |-> "const", a |-> v, b |-> 0] : v \in {0, 1, 2, 128, UByteMax}}
Ramp == {[kind |-> "ramp", a |-> 0, b |-> 0]}
OneHot == {[kind |-> "hot", a |-> r, b |-> c] : r, c \in 0 .. (MaxDim - 1)}

Extents == 1 .. MaxDim
Rank1Shapes == {<<w>> : w \in Extents}
Rank2Shapes == {<<w, h>> : w, h \in Extents}
Rank3Shapes == {<<w, h, k>> : w, h \in Extents, k \in 0 .. MaxChan}
Rank4Shapes == {<<w, h, a, k>> : w, h \in Extents, a \in 1 .. 2, k \in 1 .. MaxChan}

\* the images handed to vignette: img_as_float of a uint8 image
Arguments ==
    {ImgAsFloat(MakeImage(s, p)) :
        s \in Rank2Shapes \cup Rank3Shapes, p \in Uniform \cup Ramp \cup OneHot}
    \cup {ImgAsFloat(MakeImage(s, p)) :
        s \in Rank1Shapes \cup Rank4Shapes, p \in Ramp \cup {[kind |-> "const", a |-> UByteMax, b |-> 0]}}

\* the *.png files a directory may hold: their names and what imread gives
\* for them (colour: rank 3; greyscale: rank 2)
Names == {<<1>>, <<1, 0>>, <<2>>}
Pictures ==
    {MakeImage(<<2, 2, 3>>, [kind |-> "ramp", a |-> 0, b |-> 0]),
     MakeImage(<<1, 2, 3>>, [kind |-> "const", a |-> UByteMax, b |-> 0]),
     MakeImage(<<2, 2>>, [kind |-> "ramp", a |-> 0, b |-> 0]),
     MakeImage(<<2, 3>>, [kind |-> "ramp", a |-> 0, b |-> 0])}
Directories == UNION {[S -> Pictures] : S \in SUBSET Names}

(* ------------------------------------------------------------------ *)
(* state                                                                *)
(* ------------------------------------------------------------------ *)
NoReturn == [err |-> "none", at |-> 0, falloff |-> NoArray, result |-> NoArray,
             out |-> NoArray]

VARIABLES
    \* a call of vignette, and a second call on the first one's output
    vpc, arg, once, twice,
    \* the file system: base_directory, its *.png files, the path "output", and
    \* the files written under it
    base_exists, dir, out_path, saved,
    \* main: its position, locals and the exception that ended it
    pc, filenames, i, image, result, raised,
    \* the loop body run once per file in any order: each run's position and
    \* locals, and the files these runs write
    \* and the order in which the runs ended
    tasks, saved_any, done_order

vars == <<vpc, arg, once, twice, base_exists, dir, out_path, saved,
          pc, filenames, i, image, result, raised, tasks, saved_any, done_order>>

vignetteVars == <<vpc, arg, once, twice>>
mainVars == <<base_exists, dir, out_path, saved, pc, filenames, i, image, result, raised>>
anyVars == <<tasks, saved_any, done_order>>

\* imsave(name, picture) into a directory listing
Save(files, name, picture) ==
    {f \in files : f.name # name} \cup {[name |-> name, image |-> picture]}

(* ------------------------------------------------------------------ *)
(* main                                                                 *)
(* ------------------------------------------------------------------ *)
InitMain ==
    /\ base_exists \in BOOLEAN
    /\ dir \in (IF base_exists THEN Directories ELSE {<<>>})
    /\ out_path \in (IF base_exists THEN {"absent", "dir", "file"} ELSE {"absent"})
    /\ saved = {}
    /\ pc = "mkdir"
    /\ filenames = <<>>
    /\ i = 0
    /\ image = NoArray
    /\ result = NoArray
    /\ raised = "none"

\* if not os.path.exists(output_directory): os.mkdir(output_directory)
MakeOutputDirectory ==
    /\ pc = "mkdir"
    /\ IF out_path # "absent"
       THEN /\ pc' = "glob"
            /\ UNCHANGED <<out_path, raised>>
       ELSE IF base_exists
       THEN /\ out_path' = "dir"
            /\ pc' = "glob"
            /\ UNCHANGED raised
       ELSE /\ raised' = "OSError"
            /\ pc' = "crashed"
            /\ UNCHANGED out_path
    /\ UNCHANGED <<base_exists, dir, saved, filenames, i, image, result>>
    /\ UNCHANGED <<vignetteVars, anyVars>>

\* filenames = sorted(glob(os.path.join(base_directory, "*.png")))
ListFiles ==
    /\ pc = "glob"
    /\ \E listing \in Listings(DOMAIN dir) : filenames' = Sorted(listing)
    /\ pc' = "loop"
    /\ UNCHANGED <<base_exists, dir, out_path, saved, i, image, result, raised>>
    /\ UNCHANGED <<vignetteVars, anyVars>>

\* image = img_as_float(imread(filename)), for the next (i, filename)
ReadImage ==
    /\ pc = "loop"
    /\ i < Len(filenames)
    /\ image' = ImgAsFloat(dir[filenames[i + 1]])
    /\ pc' = "apply"
    /\ UNCHANGED <<base_exists, dir, out_path, saved, filenames, i, result, raised>>
    /\ UNCHANGED <<vignetteVars, anyVars>>

\* result = vignette(image)
ApplyVignette ==
    /\ pc = "apply"
    /\ LET r == Vignette(image)
       IN IF r.err = "none"
          THEN /\ result' = r.out
               /\ pc' = "save"
               /\ UNCHANGED raised
          ELSE /\ raised' = r.err
               /\ pc' = "crashed"
               /\ UNCHANGED result
    /\ UNCHANGED <<base_exists, dir, out_path, saved, filenames, i, image>>
    /\ UNCHANGED <<vignetteVars, anyVars>>

\* imsave(output_filename_template.format(i), result), and on to the next i
SaveImage ==
    /\ pc = "save"
    /\ IF out_path = "dir"
       THEN /\ saved' = Save(saved, OutputName(i), result)
            /\ i' = i + 1
            /\ pc' = "loop"
            /\ UNCHANGED raised
       ELSE /\ raised' = "IOError"
            /\ pc' = "crashed"
            /\ UNCHANGED <<saved, i>>
    /\ UNCHANGED <<base_exists, dir, out_path, filenames, image, result>>
    /\ UNCHANGED <<vignetteVars, anyVars>>

\* the loop is exhausted and main returns
Return ==
    /\ pc = "loop"
    /\ i = Len(filenames)
    /\ pc' = "done"
    /\ UNCHANGED <<base_exists, dir, out_path, saved, filenames, i, image, result, raised>>
    /\ UNCHANGED <<vignetteVars, anyVars>>

(* ------------------------------------------------------------------ *)
(* the loop body, once per file, in any order and interleaving          *)
(* ------------------------------------------------------------------ *)
MainEnded == pc \in {"done", "crashed"}

\* fault: the runs share one cursor into filenames instead of each reading its own
TaskReadShared(k) ==
    /\ MainEnded
    /\ k \notin DOMAIN tasks
    /\ tasks' = tasks @@ (k :> [pc |-> "apply",
                                image |-> ImgAsFloat(dir[filenames[Cardinality(DOMAIN tasks) + 1]]),
                                result |-> NoArray])
    /\ UNCHANGED <<saved_any, done_order, mainVars, vignetteVars>>

\* image = img_as_float(imread(filename)) for (k - 1, filenames[k])
TaskRead(k) ==
    /\ MainEnded
    /\ k \notin DOMAIN tasks
    /\ tasks' = tasks @@ (k :> [pc |-> "apply", image |-> ImgAsFloat(dir[filenames[k]]),
                                result |-> NoArray])
    /\ UNCHANGED <<saved_any, done_order, mainVars, vignetteVars>>

\* result = vignette(image)
TaskApply(k) ==
    /\ k \in DOMAIN tasks
    /\ tasks[k].pc = "apply"
    /\ LET r == Vignette(tasks[k].image)
       IN IF r.err = "none"
          THEN /\ tasks' = [tasks EXCEPT ![k].pc = "save", ![k].result = r.out]
               /\ UNCHANGED done_order
          ELSE /\ tasks' = [tasks EXCEPT ![k].pc = "failed"]
               /\ done_order' = Append(done_order, k)
    /\ UNCHANGED <<saved_any, mainVars, vignetteVars>>

\* imsave(output_filename_template.format(k - 1), result)
TaskSave(k) ==
    /\ k \in DOMAIN tasks
    /\ tasks[k].pc = "save"
    /\ IF out_path = "dir"
       THEN /\ saved_any' = Save(saved_any, OutputName(k - 1), tasks[k].result)
            /\ tasks' = [tasks EXCEPT ![k].pc = "done"]
       ELSE /\ tasks' = [tasks EXCEPT ![k].pc = "failed"]
            /\ UNCHANGED saved_any
    /\ done_order' = Append(done_order, k)
    /\ UNCHANGED <<mainVars, vignetteVars>>

AllTasksEnded ==
    /\ MainEnded
    /\ DOMAIN tasks = 1 .. Len(filenames)
    /\ \A k \in DOMAIN tasks : tasks[k].pc \in {"done", "failed"}

(* ------------------------------------------------------------------ *)
(* vignette called on its own, once and once more on its output         *)
(* ------------------------------------------------------------------ *)
CallVignette ==
    /\ vpc = "input"
    /\ once' = Vignette(arg)
    /\ vpc' = "once"
    /\ UNCHANGED <<arg, twice, mainVars, anyVars>>

CallAgain ==
    /\ vpc = "once"
    /\ once.err = "none"
    /\ twice' = Vignette(ImgAsFloat(once.out))
    /\ vpc' = "twice"
    /\ UNCHANGED <<arg, once, mainVars, anyVars>>

(* ------------------------------------------------------------------ *)
(* specifications                                                       *)
(* ------------------------------------------------------------------ *)
Init ==
    /\ InitMain
    /\ vpc = "idle" /\ arg = NoArray /\ once = NoReturn /\ twice = NoReturn
    /\ tasks = <<>> /\ saved_any = {} /\ done_order = <<>>

Next ==
    \/ MakeOutputDirectory
    \/ ListFiles
    \/ ReadImage
    \/ ApplyVignette
    \/ SaveImage
    \/ Return

\* main as it is
Spec == Init /\ [][Next]_vars

NextAnyOrder ==
    \/ Next
    \/ \E k \in 1 .. Len(filenames) : TaskRead(k)
    \/ \E k \in 1 .. Len(filenames) : TaskApply(k)
    \/ \E k \in 1 .. Len(filenames) : TaskSave(k)

\* main, and then its loop body run for every file in any order
SpecAnyOrder == Init /\ [][NextAnyOrder]_vars

InitVignette ==
    /\ vpc = "input" /\ arg \in Arguments /\ once = NoReturn /\ twice = NoReturn
    /\ base_exists = FALSE /\ dir = <<>> /\ out_path = "absent" /\ saved = {}
    /\ pc = "idle" /\ filenames = <<>> /\ i = 0 /\ image = NoArray
    /\ result = NoArray /\ raised = "none"
    /\ tasks = <<>> /\ saved_any = {} /\ done_order = <<>>

NextVignette == CallVignette \/ CallAgain

\* single calls of vignette
SpecVignette == InitVignette /\ [][NextVignette]_vars

(* ------------------------------------------------------------------ *)
(* properties of one call of vignette (SpecVignette)                    *)
(* ------------------------------------------------------------------ *)
Called == vpc \in {"once", "twice"}
HasExtents == Len(arg.shape) >= 2
Width == arg.shape[1]
Height == arg.shape[2]
Centre == <<Width \div 2, Height \div 2>>
One == <<1, 1>>
Zero == <<0, 1>>
\* comparisons of floats
FLess(a, b) == a[1] * b[2] < b[1] * a[2]
FEq(a, b) == a[1] * b[2] = b[1] * a[2]
FLeq(a, b) == ~FLess(b, a)
\* a colour image: rank 3 with at least one channel
IsColour == Len(arg.shape) = 3 /\ arg.shape[3] >= 1
AllWhite == \A idx \in DOMAIN arg.data : arg.data[idx] = <<UByteMax, UByteMax>>
AllBlack == \A idx \in DOMAIN arg.data : arg.data[idx] = <<0, UByteMax>>
Parity(n) == n % 2

\* C1 as stated: for every width, height > 0 the falloff is exactly 1.0 at
\* (floor(width/2), floor(height/2)), the squared distance being 0 there, and
\* every falloff value lies in (0, 1].
C1_CentreIsOne ==
    (Called /\ HasExtents) =>
        /\ FEq(DistanceSquared(Width, Height).data[Centre], Zero)
        /\ FEq(once.falloff.data[Centre], One)
        /\ \A idx \in DOMAIN once.falloff.data :
              FLess(Zero, once.falloff.data[idx]) /\ FLeq(once.falloff.data[idx], One)

\* C1 amended: every falloff value lies in (0, 1]; at (floor(width/2),
\* floor(height/2)) the squared distance is a quarter for each odd extent, so
\* the falloff there is exactly 1.0 when width and height are both even and
\* less than 1.0 otherwise.
C1_CentreOneWhenEven ==
    (Called /\ HasExtents) =>
        /\ FEq(DistanceSquared(Width, Height).data[Centre],
               <<Parity(Width) + Parity(Height), 4>>)
        /\ FEq(once.falloff.data[Centre], One) <=> (Parity(Width) = 0 /\ Parity(Height) = 0)
        /\ \A idx \in DOMAIN once.falloff.data :
              FLess(Zero, once.falloff.data[idx]) /\ FLeq(once.falloff.data[idx], One)

C1_Witness ==
    /\ Called /\ HasExtents /\ Width = 3 /\ Height = 4
    /\ FLess(once.falloff.data[Centre], One)

\* C2 as stated: the falloff is unchanged by reflecting the row index to
\* width-1-r and by reflecting the column index to height-1-c.
C2_IndexReflection ==
    (Called /\ HasExtents) =>
        \A idx \in DOMAIN once.falloff.data :
            /\ FEq(once.falloff.data[idx],
                   once.falloff.data[<<Width - 1 - idx[1], idx[2]>>])
            /\ FEq(once.falloff.data[idx],
                   once.falloff.data[<<idx[1], Height - 1 - idx[2]>>])

\* C2 amended: the falloff is symmetric about the centre (width/2, height/2)
\* the code uses: F(r, c) = F(width-r, c) for 1 <= r < width and
\* F(r, c) = F(r, height-c) for 1 <= c < height; row 0 and column 0 have no
\* mirror image.  Under the index reflection r -> width-1-r (c -> height-1-c)
\* the value is kept only where the index is its own image.
C2_CentreReflection ==
    (Called /\ HasExtents) =>
        \A idx \in DOMAIN once.falloff.data :
            LET r == idx[1]
                c == idx[2]
                F == once.falloff.data
            IN /\ r >= 1 => FEq(F[idx], F[<<Width - r, c>>])
               /\ c >= 1 => FEq(F[idx], F[<<r, Height - c>>])
               /\ FEq(F[idx], F[<<Width - 1 - r, c>>]) <=> (Width - 1 - r = r)
               /\ FEq(F[idx], F[<<r, Height - 1 - c>>]) <=> (Height - 1 - c = c)

C2_Witness ==
    /\ Called /\ HasExtents /\ Width = 4 /\ Height = 3
    /\ FEq(once.falloff.data[<<1, 1>>], once.falloff.data[<<3, 2>>])
    /\ ~FEq(once.falloff.data[<<0, 1>>], once.falloff.data[<<3, 1>>])

\* C7: the falloff is largest at (floor(width/2), floor(height/2)) and smallest
\* at the corner (0, 0); no squared distance exceeds sigma_squared, which is the
\* squared distance of (0, 0), so the falloff at (0, 0) is exp(-1) for every
\* size; with more than one pixel the corner value is strictly less than the
\* centre value.
C7_CentreMaxCornerMin ==
    (Called /\ HasExtents) =>
        LET F == once.falloff.data
            d == DistanceSquared(Width, Height).data
            sigma == SigmaSquared(Width, Height)
        IN /\ \A idx \in DOMAIN F :
                 /\ FLeq(F[idx], F[Centre])
                 /\ FLeq(F[<<0, 0>>], F[idx])
                 /\ FLeq(d[idx], sigma)
           /\ FEq(d[<<0, 0>>], sigma)
           /\ F[<<0, 0>>] = FExpNeg(One)
           /\ Width * Height > 1 => FLess(F[<<0, 0>>], F[Centre])

C7_Witness ==
    /\ Called /\ arg.shape = <<4, 4, 3>> /\ AllWhite
    /\ FEq(once.falloff.data[<<2, 2>>], One)
    /\ FLess(once.falloff.data[<<0, 0>>], once.falloff.data[<<3, 3>>])

\* the length numpy gives an axis of lengths a and b (compatible ones)
Stretch(a, b) == IF a = 1 THEN b ELSE a
Compatible(a, b) == a = b \/ a = 1 \/ b = 1

\* C3 as stated: for every valid image, of rank 3 (width, height, channels) as of
\* rank 2 (width, height), vignette returns an image of the input's shape.
C3_ShapeKept ==
    (Called /\ (IsColour \/ Len(arg.shape) = 2)) =>
        once.err = "none" /\ once.out.shape = arg.shape

\* C3 amended: for every rank 3 image with at least one channel vignette
\* returns an image of the input's shape.  A rank 2 image (width, height) is
\* broadcast against the (width, height, 1) falloff as (1, width, height): when
\* width = height or one of them is 1 the result has rank 3 and shape
\* (width, max(width, height), height), and otherwise the multiplication raises.
C3_ShapeKeptRank3 ==
    Called =>
        /\ IsColour =>
              /\ once.err = "none"
              /\ once.result.shape = arg.shape
              /\ once.out.shape = arg.shape
        /\ Len(arg.shape) = 2 =>
              IF Compatible(Width, Height)
              THEN /\ once.err = "none"
                   /\ once.out.shape = <<Width, Max(Width, Height), Height>>
              ELSE once.err = "ValueError" /\ once.at = 68

C3_Witness ==
    /\ Called /\ arg.shape = <<2, 3, 2>>
    /\ once.err = "none" /\ once.out.shape = <<2, 3, 2>>

\* C4 as stated: vignette signals an error (InvalidImageShape) and returns no
\* result when the image's rank is neither 2 nor 3 or its channel count is 0: a
\* (width, height, 0) image and a rank 4 image are rejected, not transformed.
C4_InvalidShapeRejected ==
    (Called /\ (Len(arg.shape) \notin {2, 3} \/ (Len(arg.shape) = 3 /\ arg.shape[3] = 0))) =>
        once.err # "none"

\* C4 amended: vignette validates nothing itself and never signals
\* InvalidImageShape; what fails is what numpy and skimage refuse, with a
\* ValueError: a rank below 2 at the unpacking of the shape, a shape that does
\* not broadcast against (width, height, 1) at the multiplication, an image
\* without elements ((width, height, 0)) at the conversion to 8 bit.  A rank 4
\* image (width, height, a, k) is transformed, not rejected, when width and
\* height are compatible and height and a are (equal, or one of them 1), as
\* (2, 2, 2, 3) is; its result has shape (width, width|height, height|a, k).
C4_OnlyLibraryErrors ==
    Called =>
        /\ once.err \in {"none", "ValueError"}
        /\ Len(arg.shape) < 2 => (once.err = "ValueError" /\ once.at = 42)
        /\ (Len(arg.shape) = 3 /\ arg.shape[3] = 0) =>
              (once.err = "ValueError" /\ once.at = 72)
        /\ Len(arg.shape) = 4 =>
              IF Compatible(Width, Height) /\ Compatible(Height, arg.shape[3])
              THEN /\ once.err = "none"
                   /\ once.out.shape = <<Width, Stretch(Width, Height),
                                         Stretch(Height, arg.shape[3]), arg.shape[4]>>
              ELSE once.err = "ValueError" /\ once.at = 68

C4_Witness ==
    /\ Called /\ arg.shape = <<2, 2, 2, 3>>
    /\ once.err = "none" /\ once.out.shape = <<2, 2, 2, 3>>

\* C5 as stated: for every valid image, applying vignette twice gives a result
\* strictly darker than applying it once: no sample is larger and the two
\* outputs differ.
C5_TwiceStrictlyDarker ==
    (vpc = "twice" /\ IsColour) =>
        /\ \A idx \in DOMAIN once.out.data : twice.out.data[idx] <= once.out.data[idx]
        /\ twice.out # once.out

\* C5 amended: applying vignette twice never gives a larger sample than applying
\* it once, and gives a smaller one at pixel (0, 0) in every channel where the
\* first output is not 0 there (so the outputs differ for every all-white
\* image); when the first output is 0 everywhere, as for an all-black image,
\* the two outputs are equal.
C5_TwiceNotBrighter ==
    (vpc = "twice" /\ IsColour) =>
        /\ \A idx \in DOMAIN once.out.data : twice.out.data[idx] <= once.out.data[idx]
        /\ \A k \in 0 .. (arg.shape[3] - 1) :
              once.out.data[<<0, 0, k>>] > 0 =>
                  twice.out.data[<<0, 0, k>>] < once.out.data[<<0, 0, k>>]
        /\ AllWhite => twice.out # once.out
        /\ AllBlack => \A idx \in DOMAIN once.out.data : once.out.data[idx] = 0
        /\ (\A idx \in DOMAIN once.out.data : once.out.data[idx] = 0) =>
              twice.out = once.out

C5_Witness ==
    /\ vpc = "twice" /\ arg.shape = <<4, 4, 3>> /\ AllWhite
    /\ twice.out.data[<<0, 0, 0>>] < once.out.data[<<0, 0, 0>>]
    /\ twice.out.data[<<2, 2, 0>>] = once.out.data[<<2, 2, 0>>]

\* C6: every channel k of a pixel (r, c) is multiplied by the same falloff value:
\* result(r, c, k) = image(r, c, k) * F(r, c).  For an all-white image the
\* output sample at (r, c, k) is F(r, c) scaled to 8 bit, the same for every k.
C6_SameFactorPerChannel ==
    (Called /\ IsColour) =>
        /\ once.err = "none"
        /\ \A idx \in DOMAIN arg.data :
              once.result.data[idx] =
                  FMul(arg.data[idx], once.falloff.data[<<idx[1], idx[2]>>])
        /\ AllWhite =>
              \A idx \in DOMAIN arg.data :
                  /\ once.out.data[idx] = UbyteSample(once.falloff.data[<<idx[1], idx[2]>>])
                  /\ once.out.data[idx] = once.out.data[<<idx[1], idx[2], 0>>]

C6_Witness ==
    /\ Called /\ arg.shape = <<3, 2, 3>> /\ AllWhite
    /\ once.out.data[<<0, 1, 0>>] = once.out.data[<<0, 1, 2>>]
    /\ once.out.data[<<0, 1, 0>>] < once.out.data[<<2, 1, 0>>]

(* ------------------------------------------------------------------ *)
(* properties of main (Spec) and of its loop body in any order          *)
(* (SpecAnyOrder)                                                       *)
(* ------------------------------------------------------------------ *)
\* the *.png names of base_directory, sorted
SortedNames == Sorted(CHOOSE q \in Listings(DOMAIN dir) : TRUE)

\* what imread gives is a colour image, the kind vignette is written for
ColourPicture(p) == Len(p.shape) = 3 /\ p.shape[3] >= 1

\* C8 as stated: in every run of main over N matching files (colour images), the
\* transformed image of the file at position i of the sorted list is written
\* under the name built from i, zero-padded to three digits, for every i in
\* 0..N-1: distinct inputs get distinct names and exactly N outputs are written.
C8_EveryFileWritten ==
    (MainEnded /\ \A n \in DOMAIN dir : ColourPicture(dir[n])) =>
        /\ saved = {[name |-> OutputName(k - 1),
                     image |-> Vignette(ImgAsFloat(dir[SortedNames[k]])).out] :
                        k \in 1 .. Len(SortedNames)}
        /\ Cardinality(saved) = Cardinality(DOMAIN dir)
        /\ \A f \in saved : Len(f.name) = PadWidth

\* the runs of main that return wrote every file: position i under the name
\* built from i
ReturnedRunsComplete ==
    pc = "done" =>
        /\ saved = {[name |-> OutputName(k - 1),
                     image |-> Vignette(ImgAsFloat(dir[SortedNames[k]])).out] :
                        k \in 1 .. Len(SortedNames)}
        /\ Cardinality(saved) = Cardinality(DOMAIN dir)

\* C9 as stated: whatever the file system's initial state, the output directory
\* exists when main comes to write an image.
C9_DirectoryBeforeWrite == pc = "save" => out_path = "dir"

====
